---- MODULE Spec2Model ----
(***************************************************************************)
(* A model of the music tools of this repository:                          *)
(*   mp3_meta_enricher.py  MP3MetaEnricher (ledger, clean_filename,        *)
(*                         fetch_metadata, enrich_file, process)           *)
(*   music_renamer.py      process_music_file and its thread pool          *)
(*   music_downloader.py   the same thread pool around download_music      *)
(* File names are sequences of one-character strings.  External services   *)
(* (YouTube search, Google search, the tag store, the file system's        *)
(* failures) are nondeterministic inputs of the actions.                   *)
(***************************************************************************)
EXTENDS Integers, Sequences, FiniteSets, TLC

\* ------------------------------------------------------------------------
\* Bounds of the model
\* ------------------------------------------------------------------------
\* files in the music directory at the start
MaxFiles == 2
\* runs of MP3MetaEnricher.process (each with a freshly constructed enricher)
MaxRuns == 2
\* files the renamer's directory walk collects
MaxItems == 3
\* characters of a base name given to clean_filename
MaxLen == 3
\* videos of a playlist given to download_music
MaxVideos == 2
\* concurrent calls of enrich_if_missing_metadata in the downloader's pool
MaxJobs == 2

\* ------------------------------------------------------------------------
\* Characters and strings
\* ------------------------------------------------------------------------
\* "e_acute" stands for a non-ASCII letter, "nbsp" for a non-ASCII whitespace
Range(s) == {s[i] : i \in DOMAIN s}

LowerCase ==
    <<"a", "b", "c", "d", "e", "f", "g", "h", "i", "j", "k", "l", "m", "n",
    "o", "p", "q", "r", "s", "t", "u", "v", "w", "x", "y", "z">>

UpperCase ==
    <<"A", "B", "C", "D", "E", "F", "G", "H", "I", "J", "K", "L", "M", "N",
    "O", "P", "Q", "R", "S", "T", "U", "V", "W", "X", "Y", "Z">>

\* [A-Za-z]
AsciiLetters == Range(LowerCase) \cup Range(UpperCase)

WhiteSpace == {" ", "nbsp"}

NonAscii == {"e_acute", "nbsp"}

IsAsciiChar(c) == c \notin NonAscii

\* str.lower() on one character
LowerChar(c) ==
    IF \E i \in DOMAIN UpperCase : UpperCase[i] = c
    THEN LowerCase[CHOOSE i \in DOMAIN UpperCase : UpperCase[i] = c]
    ELSE c

Lower(s) == [i \in DOMAIN s |-> LowerChar(s[i])]

\* str.endswith
EndsWith(s, suffix) ==
    /\ Len(s) >= Len(suffix)
    /\ SubSeq(s, Len(s) - Len(suffix) + 1, Len(s)) = suffix

DotMp3 == <<".", "m", "p", "3">>

\* os.path.splitext on a base name: the extension starts at the last dot,
\* unless only dots come before it
SplitExt(p) ==
    LET D == {i \in DOMAIN p : p[i] = "."}
        d == IF D = {} THEN 0 ELSE CHOOSE i \in D : \A j \in D : j <= i
    IN  IF d > 0 /\ \E i \in 1..(d - 1) : p[i] # "."
        THEN <<SubSeq(p, 1, d - 1), SubSeq(p, d, Len(p))>>
        ELSE <<p, <<>>>>

\* str.split(): the maximal runs of non-whitespace characters
RECURSIVE SplitFrom(_, _, _, _)
SplitFrom(s, i, cur, acc) ==
    IF i > Len(s)
    THEN IF cur = <<>> THEN acc ELSE Append(acc, cur)
    ELSE IF s[i] \in WhiteSpace
         THEN SplitFrom(s, i + 1, <<>>, IF cur = <<>> THEN acc ELSE Append(acc, cur))
         ELSE SplitFrom(s, i + 1, Append(cur, s[i]), acc)

Split(s) == SplitFrom(s, 1, <<>>, <<>>)

\* ' '.join(words)
RECURSIVE Join(_)
Join(words) ==
    IF words = <<>> THEN <<>>
    ELSE IF Len(words) = 1 THEN words[1]
    ELSE words[1] \o <<" ">> \o Join(Tail(words))

\* str.strip()
RECURSIVE Strip(_)
Strip(s) ==
    IF s = <<>> THEN s
    ELSE IF s[1] \in WhiteSpace THEN Strip(Tail(s))
    ELSE IF s[Len(s)] \in WhiteSpace THEN Strip(SubSeq(s, 1, Len(s) - 1))
    ELSE s

\* outcomes of Translator.translate: it raises, or returns some text
TranslateOutcomes == {<<"raise">>, <<"a">>, <<" ", "a", "b">>}

\* a clean_filename without its two filters: the base name as it came
FilteredBaseUnfiltered(filename) == SplitExt(filename)[1]

\* the two filters of clean_filename applied to the base name
FilteredBase(filename) ==
    LET name1 == SelectSeq(SplitExt(filename)[1],
                           LAMBDA c : c \in AsciiLetters \/ c \in WhiteSpace)
    IN  Join(SelectSeq(Split(name1), LAMBDA w : \A i \in DOMAIN w : IsAsciiChar(w[i])))

\* if not all(ord(c) < 128 for c in name): the translation call is reached
TranslationReached(filename) ==
    \E i \in DOMAIN FilteredBase(filename) : ~IsAsciiChar(FilteredBase(filename)[i])

\* a clean_filename that keeps every character of the base name
CleanFilenameKeepAll(filename, tr) ==
    Strip(SplitExt(filename)[1]) \o SplitExt(filename)[2]

\* MP3MetaEnricher.clean_filename; tr is what the translation service does
\* if it is called
CleanFilename(filename, tr) ==
    LET parts == SplitExt(filename)
        name1 == SelectSeq(parts[1], LAMBDA c : c \in AsciiLetters \/ c \in WhiteSpace)
        name2 == Join(SelectSeq(Split(name1),
                                LAMBDA w : \A i \in DOMAIN w : IsAsciiChar(w[i])))
        name3 == IF \A i \in DOMAIN name2 : IsAsciiChar(name2[i]) THEN name2
                 ELSE IF tr = <<"raise">> THEN name2
                 ELSE tr
    IN  Strip(name3) \o parts[2]

\* ------------------------------------------------------------------------
\* Metadata resolver: MP3MetaEnricher.fetch_metadata
\* ------------------------------------------------------------------------
\* Python values met in provider answers: None, a text, a number
None == [t |-> "none", s |-> <<>>, n |-> 0]

Str(x) == [t |-> "str", s |-> x, n |-> 0]

Num(k) == [t |-> "num", s |-> <<>>, n |-> k]

\* truth value of a Python value (None, '' and 0 are false)
Truthy(v) == (v.t = "str" /\ v.s # <<>>) \/ (v.t = "num" /\ v.n # 0)

\* a or b
PyOr(a, b) == IF Truthy(a) THEN a ELSE b

DigitText == <<"0", "1", "2", "3", "4", "5", "6", "7", "8", "9">>

\* str(v) for the small numbers of the model
PyStr(v) == IF v.t = "num" THEN Str(<<DigitText[v.n + 1]>>) ELSE v

\* str(x) if x else ''
StrOrEmpty(v) == IF Truthy(v) THEN PyStr(v) ELSE Str(<<>>)

CommonTags ==
    {"artist", "genre", "title", "album", "date", "tracknumber", "composer",
     "albumartist", "discnumber", "length", "comment"}

YtKeys ==
    {"uploader", "artist", "genre", "title", "album", "release_date", "upload_date",
     "track", "composer", "album_artist", "disc_number", "duration", "description"}

\* a filter that keeps the empty fields
DropEmptyKeepAll(meta) == meta

\* {k: v for k, v in meta.items() if v}
DropEmpty(meta) ==
    LET keep == {k \in DOMAIN meta : Truthy(meta[k])}
    IN  [k \in keep |-> meta[k]]

\* the meta dictionary built from the first search entry
YoutubeMeta(entry, filename) ==
    [k \in CommonTags |->
        CASE k = "artist" -> PyOr(PyOr(entry["uploader"], entry["artist"]), Str(<<>>))
          [] k = "genre" -> PyOr(entry["genre"], Str(<<>>))
          [] k = "title" -> PyOr(entry["title"], Str(SplitExt(filename)[1]))
          [] k = "album" -> PyOr(entry["album"], Str(<<>>))
          [] k = "date" ->
                PyOr(PyOr(entry["release_date"], entry["upload_date"]), Str(<<>>))
          [] k = "tracknumber" -> StrOrEmpty(entry["track"])
          [] k = "composer" -> PyOr(entry["composer"], Str(<<>>))
          [] k = "albumartist" -> PyOr(entry["album_artist"], Str(<<>>))
          [] k = "discnumber" -> StrOrEmpty(entry["disc_number"])
          [] k = "length" -> StrOrEmpty(entry["duration"])
          [] OTHER -> PyOr(entry["description"], Str(<<>>))]

\* What a provider stage hands back: an exception (exc), a returned candidate
\* (ret, meta), or neither (control falls through); calls are the requests
\* the stage issued
Raised(calls) == [exc |-> TRUE, ret |-> FALSE, meta |-> << >>, calls |-> calls]

FallThrough(calls) == [exc |-> FALSE, ret |-> FALSE, meta |-> << >>, calls |-> calls]

Returned(meta, calls) == [exc |-> FALSE, ret |-> TRUE, meta |-> meta, calls |-> calls]

\* the body of the first try block: extract_info and the first entry
\* yt.kind: "raise" (extract_info raises), "none" (no entries), "entry"
YoutubeStage(filename, yt) ==
    IF yt.kind = "raise" THEN Raised(<<"youtube">>)
    ELSE IF yt.kind = "none" THEN FallThrough(<<"youtube">>)
    ELSE LET meta == DropEmpty(YoutubeMeta(yt.entry, filename))
         IN  IF DOMAIN meta # {} THEN Returned(meta, <<"youtube">>)
             ELSE FallThrough(<<"youtube">>)

\* except Exception around the YouTube search: logged, control goes on
CatchYoutube(r) == IF r.exc THEN FallThrough(r.calls) ELSE r

\* a credential test that is content with one of the two
CredentialsSetEither(env) == Truthy(env.api_key) \/ Truthy(env.cse_id)

\* if api_key and cse_id
CredentialsSet(env) == Truthy(env.api_key) /\ Truthy(env.cse_id)

\* artist and title taken from the first item's snippet: g.by is the first
\* word after "by " (None without a match), g.quoted the first quoted text
GoogleMeta(g, filename) ==
    [k \in {"artist", "title"} |->
        IF k = "artist"
        THEN (IF g.by.t = "none" THEN Str(<<>>) ELSE g.by)
        ELSE PyOr(IF g.quoted.t = "none" THEN Str(<<>>) ELSE g.quoted,
                  Str(SplitExt(filename)[1]))]

\* the body of the second try block
\* g.kind: "raise" (requests.get or resp.json raises), "status" (not 200),
\* "noitems", "items"
GoogleStage(filename, env, g) ==
    IF ~CredentialsSet(env) THEN FallThrough(<< >>)
    ELSE IF g.kind = "raise" THEN Raised(<<"google">>)
    ELSE IF g.kind \in {"status", "noitems"} THEN FallThrough(<<"google">>)
    ELSE LET meta == DropEmpty(GoogleMeta(g, filename))
         IN  IF DOMAIN meta # {} THEN Returned(meta, <<"google">>)
             ELSE FallThrough(<<"google">>)

\* an except clause that lets the exception through
CatchGoogleNothing(r) == r

\* except Exception around the Google search
CatchGoogle(r) == IF r.exc THEN FallThrough(r.calls) ELSE r

\* a fetch_metadata whose first provider's candidate is not returned at once:
\* the second provider is asked as well and its candidate, if any, wins
FetchMetadataNoShortCircuit(filename, yt, env, g) ==
    LET a == CatchYoutube(YoutubeStage(filename, yt))
        b == CatchGoogle(GoogleStage(filename, env, g))
    IN  [found |-> a.ret \/ b.ret, meta |-> IF b.ret THEN b.meta ELSE a.meta,
         calls |-> a.calls \o b.calls, raised |-> a.exc \/ b.exc]

\* a fetch_metadata that gives up when the first provider has no candidate
FetchMetadataNoFallback(filename, yt, env, g) ==
    LET a == CatchYoutube(YoutubeStage(filename, yt))
    IN  [found |-> a.ret, meta |-> a.meta, calls |-> a.calls, raised |-> a.exc]

\* fetch_metadata: found (a candidate is returned, else None), meta (the
\* candidate), calls (the provider requests issued, in order), raised (an
\* exception left fetch_metadata)
FetchMetadata(filename, yt, env, g) ==
    LET a == CatchYoutube(YoutubeStage(filename, yt))
    IN  IF a.exc
        THEN [found |-> FALSE, meta |-> << >>, calls |-> a.calls, raised |-> TRUE]
        ELSE IF a.ret
        THEN [found |-> TRUE, meta |-> a.meta, calls |-> a.calls, raised |-> FALSE]
        ELSE LET b == CatchGoogle(GoogleStage(filename, env, g))
             IN  [found |-> b.ret, meta |-> b.meta, calls |-> a.calls \o b.calls,
                  raised |-> b.exc]

\* ------------------------------------------------------------------------
\* music_renamer.py: pure helpers
\* ------------------------------------------------------------------------
\* keyword in text: substring containment
Contains(text, kw) ==
    \E i \in 0..(Len(text) - Len(kw)) : SubSeq(text, i + 1, i + Len(kw)) = kw

\* [\\/:*?"<>|]
InvalidChars == {"\\", "/", ":", "*", "?", "\"", "<", ">", "|"}

\* sanitize_filename: the invalid characters removed, then strip()
SanitizeFilename(name) == Strip(SelectSeq(name, LAMBDA c : c \notin InvalidChars))

\* is_sensible_filename: ' - ', ' (' or ')' occurs, or more than two words
IsSensibleFilename(name) ==
    \/ Contains(name, <<" ", "-", " ">>)
    \/ Contains(name, <<" ", "(">>)
    \/ Contains(name, <<")">>)
    \/ Len(Split(name)) > 2

\* GENRE_MAPPING, in the order of the dictionary literal
GenreMapping ==
    <<<<<<"a", "r", "a", "b", "i", "c">>, "Arabic & Middle Eastern">>,
      <<<<"m", "i", "d", "d", "l", "e", " ", "e", "a", "s", "t", "e", "r", "n">>, "Arabic & Middle Eastern">>,
      <<<<"b", "o", "l", "l", "y", "w", "o", "o", "d">>, "Bollywood & Indian Pop">>,
      <<<<"i", "n", "d", "i", "a", "n", " ", "p", "o", "p">>, "Bollywood & Indian Pop">>,
      <<<<"c", "h", "i", "l", "l">>, "Chill & Acoustic">>,
      <<<<"a", "c", "o", "u", "s", "t", "i", "c">>, "Chill & Acoustic">>,
      <<<<"e", "l", "e", "c", "t", "r", "o", "n", "i", "c">>, "Electronic & EDM">>,
      <<<<"e", "d", "m">>, "Electronic & EDM">>,
      <<<<"p", "o", "p">>, "Pop">>,
      <<<<"r", "o", "c", "k">>, "Rock">>,
      <<<<"s", "u", "f", "i">>, "Sufi & Devotional">>,
      <<<<"d", "e", "v", "o", "t", "i", "o", "n", "a", "l">>, "Sufi & Devotional">>,
      <<<<"u", "p", "b", "e", "a", "t">>, "Upbeat & Party">>,
      <<<<"p", "a", "r", "t", "y">>, "Upbeat & Party">>>>

\* the bucket of the first keyword of the table that text.lower() contains,
\* "" if there is none
RECURSIVE FirstKeyword(_, _)
FirstKeyword(text, i) ==
    IF i > Len(GenreMapping) THEN ""
    ELSE IF Contains(Lower(text), Lower(GenreMapping[i][1])) THEN GenreMapping[i][2]
    ELSE FirstKeyword(text, i + 1)

\* the loop over text_to_analyze; a text that is None raises AttributeError
\* at text.lower()
RECURSIVE GenreOfTexts(_)
GenreOfTexts(texts) ==
    IF texts = << >> THEN [exc |-> FALSE, genre |-> "Other"]
    ELSE IF Head(texts).t # "str" THEN [exc |-> TRUE, genre |-> ""]
    ELSE IF FirstKeyword(Head(texts).s, 1) # ""
         THEN [exc |-> FALSE, genre |-> FirstKeyword(Head(texts).s, 1)]
    ELSE GenreOfTexts(Tail(texts))

\* a determine_genre that looks at the title before categories and tags
DetermineGenreTitleFirst(info) ==
    IF ~info.found THEN [exc |-> FALSE, genre |-> "Other"]
    ELSE GenreOfTexts(
            (IF "title" \in info.has THEN <<info.title>> ELSE << >>)
            \o (IF "categories" \in info.has THEN info.categories ELSE << >>)
            \o (IF "tags" \in info.has THEN info.tags ELSE << >>)
            \o (IF "description" \in info.has THEN <<info.description>> ELSE << >>))

\* determine_genre(info_dict): info.found is false for None or an empty
\* dictionary, info.has holds the keys present, categories and tags are lists
\* of texts, title and description are values
DetermineGenre(info) ==
    IF ~info.found THEN [exc |-> FALSE, genre |-> "Other"]
    ELSE GenreOfTexts(
            (IF "categories" \in info.has THEN info.categories ELSE << >>)
            \o (IF "tags" \in info.has THEN info.tags ELSE << >>)
            \o (IF "title" \in info.has THEN <<info.title>> ELSE << >>)
            \o (IF "description" \in info.has THEN <<info.description>> ELSE << >>))

\* ------------------------------------------------------------------------
\* music_downloader.py: map_genre
\* ------------------------------------------------------------------------
\* genre_map, in the order of the dictionary literal
GenreMap ==
    <<<<<<"p", "o", "p">>, "Pop">>,
      <<<<"r", "o", "c", "k">>, "Rock">>,
      <<<<"e", "l", "e", "c", "t", "r", "o", "n", "i", "c">>, "Electronic">>,
      <<<<"e", "d", "m">>, "Electronic">>,
      <<<<"c", "l", "a", "s", "s", "i", "c", "a", "l">>, "Classical">>,
      <<<<"h", "i", "p", " ", "h", "o", "p">>, "Pop">>,
      <<<<"r", "a", "p">>, "Pop">>,
      <<<<"j", "a", "z", "z">>, "Other">>,
      <<<<"f", "o", "l", "k">>, "Other">>,
      <<<<"c", "o", "u", "n", "t", "r", "y">>, "Other">>,
      <<<<"m", "e", "t", "a", "l">>, "Rock">>,
      <<<<"i", "n", "d", "i", "e">>, "Rock">>,
      <<<<"d", "a", "n", "c", "e">>, "Electronic">>,
      <<<<"b", "l", "u", "e", "s">>, "Other">>,
      <<<<"r", "e", "g", "g", "a", "e">>, "Other">>,
      <<<<"s", "o", "u", "l">>, "Other">>,
      <<<<"r", "&", "b">>, "Pop">>,
      <<<<"s", "o", "u", "n", "d", "t", "r", "a", "c", "k">>, "Other">>,
      <<<<"o", "t", "h", "e", "r">>, "Other">>>>

\* the bucket of the first key of genre_map that the text contains, "Other"
\* if there is none
RECURSIVE FirstMapKey(_, _)
FirstMapKey(text, i) ==
    IF i > Len(GenreMap) THEN "Other"
    ELSE IF Contains(text, GenreMap[i][1]) THEN GenreMap[i][2]
    ELSE FirstMapKey(text, i + 1)

\* map_genre(genre): 'Other' for None and '', genre.lower() raises on a
\* value that is no text
MapGenre(genre) ==
    IF ~Truthy(genre) THEN [exc |-> FALSE, genre |-> "Other"]
    ELSE IF genre.t # "str" THEN [exc |-> TRUE, genre |-> ""]
    ELSE [exc |-> FALSE, genre |-> FirstMapKey(Lower(genre.s), 1)]

\* ------------------------------------------------------------------------
\* State
\* ------------------------------------------------------------------------
VARIABLES
    \* --- MP3MetaEnricher.process over one music directory ---
    fs,          \* the directory: file name -> [id, tags]; id names the content
    ledgerFile,  \* processed_files.json: [state, keys]
    processed,   \* self.processed, the in-memory ledger set
    pc,          \* where the enricher process is
    todo,        \* the files os.walk listed and the loop has not reached yet
    cur,         \* the loop's file, full_path and new_path
    run,         \* number of the current run
    events,      \* history: <<what, item, path>> of what the current run did
                 \* for the listed file `item` on the path `path`
    prev,        \* history: how the previous run ended and what it marked done
    durable,     \* history: keys contained in a completely rewritten ledger file
    \* --- one call of fetch_metadata ---
    rq,          \* the query and what the providers and the environment do
    rout,        \* the result of the call, once made
    \* --- the renamer's batch: thread pool and process_music_file ---
    mfs,         \* the music folder: <<folder, name>> -> content identity
    items,       \* music_files, the paths collected by the directory walk
    submitted,   \* how many items executor.submit has taken
    task,        \* per item: where its task is, its target path, how it ended
    collected,   \* per item: what the as_completed loop recorded for it
    bpc,         \* where the main thread is
    \* --- one call of the classifiers (determine_genre, map_genre) ---
    cq,          \* the info record and the genre text given to them
    cres,        \* what they answered, once called
    \* --- one call of clean_filename ---
    nq,          \* the filename and what the translation service would do
    nres,        \* the cleaned name, and the cleaned name cleaned again
    \* --- one call of enrich_file ---
    eq,          \* the file's tags and what the tag store and the resolver do
    eres,        \* what the call returned and the tags the file holds then
    \* --- one call of download_music ---
    durl,        \* the URL's kind and the videos of its playlist
    dpc,         \* where download_music is
    dleft,       \* video_urls the playlist loop has not reached yet
    dlog,        \* history: <<video, outcome>> for every video attempted
    dret,        \* how download_music ended
    dfs,         \* the music folder: <<folder, name>> -> [genre, tags]
    denr,        \* history: the calls of enrich_if_missing_metadata, each with
                 \* the path given, where the file is, and whether it is there
    \* --- the downloader's worker pool and the ledger ---
    wk           \* per worker: where it is and its enricher's ledger set

enrVars == <<fs, ledgerFile, processed, pc, todo, cur, run, events, prev, durable>>

resVars == <<rq, rout>>

batVars == <<mfs, items, submitted, task, collected, bpc>>

fnVars == <<cq, cres, nq, nres, eq, eres>>

dlVars == <<durl, dpc, dleft, dlog, dret, dfs, denr, wk>>

\* all permutations of a finite set, as sequences
RECURSIVE Perms(_)
Perms(S) ==
    IF S = {} THEN {<< >>}
    ELSE UNION {{<<x>> \o q : q \in Perms(S \ {x})} : x \in S}

\* ------------------------------------------------------------------------
\* Provider behaviours drawn by the enricher's actions
\* ------------------------------------------------------------------------
NoEntry == [k \in YtKeys |-> None]

EnrYtOutcomes ==
    {[kind |-> "raise", entry |-> NoEntry],
     [kind |-> "none", entry |-> NoEntry],
     [kind |-> "entry", entry |-> [NoEntry EXCEPT !["title"] = Str(<<"a">>)]]}

EnrEnvs ==
    {[api_key |-> None, cse_id |-> None],
     [api_key |-> Str(<<"a">>), cse_id |-> Str(<<"b">>)]}

EnrGoogleOutcomes ==
    {[kind |-> "raise", by |-> None, quoted |-> None],
     [kind |-> "items", by |-> None, quoted |-> Str(<<"b">>)]}

\* ------------------------------------------------------------------------
\* The processed ledger: load_processed / save_processed
\* ------------------------------------------------------------------------
\* json.load succeeds on a completely written file only
LedgerReadable(file) == file.state \in {"absent", "ok"}

\* a load_processed that forgets the backing file
LoadProcessedEmpty(file) == {}

\* load_processed: the empty set without a backing file, else set(json.load(f))
LoadProcessed(file) == IF file.state = "absent" THEN {} ELSE Range(file.keys)

\* open(self.processed_log, 'w'): the file is truncated before anything is written
OpenTruncate(file) == [state |-> "partial", keys |-> << >>]

\* json.dump(list(self.processed), f): every order of the set is a possible list
DumpLists(set) == Perms(set)

\* ------------------------------------------------------------------------
\* MP3MetaEnricher.process
\* ------------------------------------------------------------------------
\* candidate names of the directory's files
DirNames ==
    {<<"b", ".", "M", "p", "3">>,
     <<"b", "1", ".", "M", "p", "3">>,
     <<"1", ".", "m", "p", "3">>,
     <<".", "m", "p", "3">>,
     <<"a", ".", "t">>}

\* a fixed content identity for each initial file
FileId(name) ==
    CASE name = <<"b", ".", "M", "p", "3">> -> 1
      [] name = <<"b", "1", ".", "M", "p", "3">> -> 2
      [] name = <<"1", ".", "m", "p", "3">> -> 3
      [] name = <<".", "m", "p", "3">> -> 4
      [] OTHER -> 5

\* tags a file may hold at the start: none, or every common tag
InitTagChoices == {{}, CommonTags}

NoCur == [file |-> << >>, path |-> << >>, target |-> << >>]

Running == {"walk", "remove", "rename", "enrich", "open", "dump"}

Stopped == {"off", "done", "raised", "killed", "loadfail"}

EnrInit ==
    /\ \E names \in SUBSET DirNames :
          /\ Cardinality(names) \in 1..MaxFiles
          /\ fs \in {[n \in names |-> [id |-> FileId(n), tags |-> tg[n]]] :
                        tg \in [names -> InitTagChoices]}
    /\ ledgerFile = [state |-> "absent", keys |-> << >>]
    /\ processed = {}
    /\ pc = "off"
    /\ todo = << >>
    /\ cur = NoCur
    /\ run = 0
    /\ events = {}
    /\ prev = [done |-> FALSE, marked |-> {}]
    /\ durable = {}

ResIdle == rq = << >> /\ rout = << >>

\* no classifier, clean_filename or enrich_file call is being looked at
FnIdle ==
    /\ cq = << >> /\ cres = << >>
    /\ nq = << >> /\ nres = << >>
    /\ eq = << >> /\ eres = << >>

\* download_music is not running
DlIdle ==
    /\ durl = << >>
    /\ dpc = "off"
    /\ dleft = << >>
    /\ dlog = << >>
    /\ dret = ""
    /\ dfs = << >>
    /\ denr = {}
    /\ wk = << >>

EnrFrame == UNCHANGED <<resVars, batVars, fnVars, dlVars>>

\* if not file.lower().endswith('.mp3')
IsMp3(file) == EndsWith(Lower(file), DotMp3)

\* a ledger check that never finds the path
InLedgerNever(path, set) == FALSE

\* the ledger check: if full_path in self.processed
InLedger(path, set) == path \in set

\* __init__ (load_processed) followed by process reaching os.walk's listing
StartRun ==
    /\ pc \in Stopped
    /\ run < MaxRuns
    /\ run' = run + 1
    /\ cur' = NoCur
    /\ IF LedgerReadable(ledgerFile)
       THEN /\ processed' = LoadProcessed(ledgerFile)
            /\ todo' \in Perms(DOMAIN fs)
            /\ pc' = "walk"
       ELSE /\ processed' = {}
            /\ todo' = << >>
            /\ pc' = "loadfail"
    /\ prev' = [done |-> pc = "done",
                 marked |-> {e[3] : e \in {x \in events : x[1] = "mark"}}]
    /\ events' = {}
    /\ UNCHANGED <<fs, ledgerFile, durable>>
    /\ EnrFrame

\* the loop head for the next listed file: the two skips, then clean_filename
WalkNext ==
    /\ pc = "walk"
    /\ todo # << >>
    /\ LET file == Head(todo) IN
       /\ todo' = Tail(todo)
       /\ IF ~IsMp3(file)
          THEN /\ events' = events \cup {<<"skip_filter", file, file>>}
               /\ UNCHANGED <<pc, cur>>
          ELSE IF InLedger(file, processed)
          THEN /\ events' = events \cup {<<"skip_ledger", file, file>>}
               /\ UNCHANGED <<pc, cur>>
          ELSE \E tr \in (IF TranslationReached(file) THEN TranslateOutcomes
                            ELSE {<<"raise">>}) :
                 LET cleaned == CleanFilename(file, tr) IN
                 /\ events' = events \cup {<<"visit", file, file>>}
                 /\ cur' = [file |-> file, path |-> file, target |-> cleaned]
                 /\ pc' = IF cleaned = file THEN "enrich"
                          ELSE IF cleaned \in DOMAIN fs THEN "remove"
                          ELSE "rename"
    /\ UNCHANGED <<fs, ledgerFile, processed, run, prev, durable>>
    /\ EnrFrame

\* the walk is exhausted: process returns
WalkEnd ==
    /\ pc = "walk"
    /\ todo = << >>
    /\ pc' = "done"
    /\ UNCHANGED events
    /\ UNCHANGED <<fs, ledgerFile, processed, todo, cur, run, prev, durable>>
    /\ EnrFrame

\* the process ends on an uncaught exception or a kill: its memory is gone
Die(how) == pc' = how /\ processed' = {} /\ todo' = << >> /\ cur' = NoCur

\* os.remove(new_path): the occupying file is deleted, or the call raises
RemoveExisting ==
    /\ pc = "remove"
    /\ \/ /\ fs' = [n \in DOMAIN fs \ {cur.target} |-> fs[n]]
          /\ UNCHANGED events
          /\ pc' = "rename"
          /\ UNCHANGED <<processed, todo, cur>>
       \/ /\ Die("raised")
          /\ UNCHANGED <<fs, events>>
    /\ UNCHANGED <<ledgerFile, run, prev, durable>>
    /\ EnrFrame

\* a rename that leaves the file at its original path as well
RenameFileKeepsSource ==
    /\ pc = "rename"
    /\ \/ /\ fs' = [n \in DOMAIN fs \cup {cur.target} |->
                      IF n = cur.target THEN fs[cur.path] ELSE fs[n]]
          /\ events' = events \cup {<<"rename", cur.file, cur.path>>}
          /\ cur' = [cur EXCEPT !.path = cur.target]
          /\ pc' = "enrich"
          /\ UNCHANGED <<processed, todo>>
       \/ /\ Die("raised")
          /\ UNCHANGED <<fs, events>>
    /\ UNCHANGED <<ledgerFile, run, prev, durable>>
    /\ EnrFrame

\* os.rename(full_path, new_path); full_path = new_path, or the call raises
RenameFile ==
    /\ pc = "rename"
    /\ \/ /\ fs' = [n \in (DOMAIN fs \ {cur.path}) \cup {cur.target} |->
                      IF n = cur.target THEN fs[cur.path] ELSE fs[n]]
          /\ events' = events \cup {<<"rename", cur.file, cur.path>>}
          /\ cur' = [cur EXCEPT !.path = cur.target]
          /\ pc' = "enrich"
          /\ UNCHANGED <<processed, todo>>
       \/ /\ Die("raised")
          /\ UNCHANGED <<fs, events>>
    /\ UNCHANGED <<ledgerFile, run, prev, durable>>
    /\ EnrFrame

\* an enrich_file that does not look at the tags the file already holds
EnrichFileNoInspection(tags, loadOk, fm, rejected, saveOk) ==
    LET written == DOMAIN fm.meta \ rejected
        no(called) == [ret |-> FALSE, tags |-> tags, called |-> called,
                       found |-> called /\ fm.found /\ ~fm.raised, written |-> {}]
    IN  IF ~loadOk THEN no(FALSE)
        ELSE IF fm.raised \/ ~fm.found THEN no(TRUE)
        ELSE IF ~saveOk THEN no(TRUE)
        ELSE [ret |-> TRUE, tags |-> tags \cup written, called |-> TRUE,
              found |-> TRUE, written |-> written]

\* an enrich_file whose first failing assignment ends the call: the exception
\* reaches the outer handler, nothing is saved
EnrichFileFieldFatal(tags, loadOk, fm, rejected, saveOk) ==
    LET written == DOMAIN fm.meta \ rejected
        no(called) == [ret |-> FALSE, tags |-> tags, called |-> called,
                       found |-> called /\ fm.found /\ ~fm.raised, written |-> {}]
    IN  IF ~loadOk THEN no(FALSE)
        ELSE IF CommonTags \subseteq tags THEN no(FALSE)
        ELSE IF fm.raised \/ ~fm.found THEN no(TRUE)
        ELSE IF rejected # {} THEN no(TRUE)
        ELSE IF ~saveOk THEN no(TRUE)
        ELSE [ret |-> TRUE, tags |-> tags \cup written, called |-> TRUE,
              found |-> TRUE, written |-> written]

\* enrich_file on a file holding `tags`: loadOk (MP3(filepath) opens the file),
\* fm (what fetch_metadata answers if called), rejected (the keys whose
\* assignment audio[k] = v raises), saveOk (audio.save() succeeds)
EnrichFile(tags, loadOk, fm, rejected, saveOk) ==
    LET written == DOMAIN fm.meta \ rejected
        no(called) == [ret |-> FALSE, tags |-> tags, called |-> called,
                       found |-> called /\ fm.found /\ ~fm.raised, written |-> {}]
    IN  IF ~loadOk THEN no(FALSE)
        ELSE IF CommonTags \subseteq tags THEN no(FALSE)
        ELSE IF fm.raised \/ ~fm.found THEN no(TRUE)
        ELSE IF ~saveOk THEN no(TRUE)
        ELSE [ret |-> TRUE, tags |-> tags \cup written, called |-> TRUE,
              found |-> TRUE, written |-> written]

\* a process that never adds to the ledger set
MarkDoneNothing(set, path, enriched) == set

\* if self.enrich_file(full_path): self.processed.add(full_path)
MarkDone(set, path, enriched) == IF enriched THEN set \cup {path} ELSE set

\* enrich_file(full_path) and the ledger's in-memory update
EnrichStep ==
    /\ pc = "enrich"
    /\ \E loadOk \in BOOLEAN, saveOk \in BOOLEAN,
          yt \in EnrYtOutcomes, env \in EnrEnvs, g \in EnrGoogleOutcomes :
         LET fm == FetchMetadata(cur.path, yt, env, g) IN
         \E rejected \in SUBSET DOMAIN fm.meta :
           LET r == EnrichFile(fs[cur.path].tags, loadOk, fm, rejected, saveOk) IN
           /\ fs' = [fs EXCEPT ![cur.path].tags = r.tags]
           /\ processed' = MarkDone(processed, cur.path, r.ret)
           /\ events' = events
                 \cup (IF r.called THEN {<<"resolver", cur.file, cur.path>>} ELSE {})
                 \cup (IF r.written # {} THEN {<<"tagwrite", cur.file, cur.path>>} ELSE {})
                 \cup (IF processed' # processed \/ (r.ret /\ cur.path \in processed)
                       THEN {<<"mark", cur.file, cur.path>>} ELSE {})
    /\ pc' = "open"
    /\ UNCHANGED <<ledgerFile, todo, cur, run, prev, durable>>
    /\ EnrFrame

\* save_processed, first half: open(..., 'w') truncates the file, or raises
SaveOpen ==
    /\ pc = "open"
    /\ \/ /\ ledgerFile' = OpenTruncate(ledgerFile)
          /\ pc' = "dump"
          /\ UNCHANGED <<processed, todo, cur>>
       \/ /\ Die("raised")
          /\ UNCHANGED ledgerFile
    /\ UNCHANGED <<fs, run, events, prev, durable>>
    /\ EnrFrame

\* save_processed, second half: json.dump and close, or the write raises;
\* then the loop goes to the next file
SaveDump ==
    /\ pc = "dump"
    /\ \/ /\ \E keys \in DumpLists(processed) :
                ledgerFile' = [state |-> "ok", keys |-> keys]
          /\ durable' = durable \cup processed
          /\ pc' = "walk"
          /\ cur' = NoCur
          /\ UNCHANGED <<processed, todo>>
       \/ /\ Die("raised")
          /\ UNCHANGED <<ledgerFile, durable>>
    /\ UNCHANGED <<fs, run, events, prev>>
    /\ EnrFrame

\* the process is killed at any point of a run
Kill ==
    /\ pc \in Running
    /\ Die("killed")
    /\ UNCHANGED <<fs, ledgerFile, run, events, prev, durable>>
    /\ EnrFrame

NextEnricher ==
    \/ StartRun
    \/ WalkNext
    \/ WalkEnd
    \/ RemoveExisting
    \/ RenameFile
    \/ EnrichStep
    \/ SaveOpen
    \/ SaveDump
    \/ Kill

\* the renamer's batch is not running
BatIdle ==
    /\ mfs = << >>
    /\ items = << >>
    /\ submitted = 0
    /\ task = << >>
    /\ collected = << >>
    /\ bpc = "off"

vars == <<enrVars, resVars, batVars, fnVars, dlVars>>

InitEnricher == EnrInit /\ ResIdle /\ BatIdle /\ FnIdle /\ DlIdle

SpecEnricher == InitEnricher /\ [][NextEnricher]_vars

\* ------------------------------------------------------------------------
\* One call of fetch_metadata with given provider behaviours
\* ------------------------------------------------------------------------
ResFilenames == {<< >>, <<"b", ".", "m", "p", "3">>}

ResYtOutcomes ==
    {[kind |-> "raise", entry |-> NoEntry], [kind |-> "none", entry |-> NoEntry]}
    \cup {[kind |-> "entry",
           entry |-> [NoEntry EXCEPT !["title"] = ti, !["uploader"] = up,
                                     !["artist"] = ar, !["track"] = tn]] :
            ti \in {None, Str(<< >>), Str(<<"a">>)}, up \in {None, Str(<<"b">>)},
            ar \in {None, Str(<<"a">>)}, tn \in {None, Num(0), Num(5)}}

ResEnvs ==
    [api_key : {None, Str(<< >>), Str(<<"a">>)}, cse_id : {None, Str(<< >>), Str(<<"b">>)}]

ResGoogleOutcomes ==
    {[kind |-> k, by |-> None, quoted |-> None] : k \in {"raise", "status", "noitems"}}
    \cup [kind : {"items"}, by : {None, Str(<< >>), Str(<<"a">>)},
          quoted : {None, Str(<<"b">>)}]

\* the enricher is not running
EnrIdle ==
    /\ fs = << >>
    /\ ledgerFile = [state |-> "absent", keys |-> << >>]
    /\ processed = {}
    /\ pc = "off"
    /\ todo = << >>
    /\ cur = NoCur
    /\ run = 0
    /\ events = {}
    /\ prev = [done |-> FALSE, marked |-> {}]
    /\ durable = {}

InitResolver ==
    /\ rq \in [filename : ResFilenames, yt : ResYtOutcomes, env : ResEnvs,
               g : ResGoogleOutcomes]
    /\ rout = << >>
    /\ EnrIdle
    /\ BatIdle
    /\ FnIdle
    /\ DlIdle

\* fetch_metadata(filename) is called and answers
Resolve ==
    /\ rout = << >>
    /\ rout' = FetchMetadata(rq.filename, rq.yt, rq.env, rq.g)
    /\ UNCHANGED rq
    /\ UNCHANGED <<enrVars, batVars, fnVars, dlVars>>

NextResolver == Resolve

SpecResolver == InitResolver /\ [][NextResolver]_vars

\* ------------------------------------------------------------------------
\* music_renamer.py: the batch (thread pool, process_music_file)
\* ------------------------------------------------------------------------
\* max_workers of the ThreadPoolExecutor
CONCURRENCY_LEVEL == 4

Mp3Name(base) == base \o DotMp3

\* files the walk may collect: three in music/, one in music/Other/
ItemChoices ==
    {<<"music", Mp3Name(<<"x">>)>>,
     <<"music", Mp3Name(<<"y">>)>>,
     <<"music", Mp3Name(<<"a", " ", "-", " ", "b">>)>>,
     <<"Other", Mp3Name(<<"x">>)>>}

\* the folders the walk does not descend into
ExcludedDirs == {GenreMapping[i][2] : i \in DOMAIN GenreMapping} \cup {"thumbnails"}

\* the walk's file filter: no hidden file, no .db, .ini, .log or .txt file
WalkKeeps(name) ==
    /\ ~(name # << >> /\ Head(name) = ".")
    /\ \A ext \in {<<".", "d", "b">>, <<".", "i", "n", "i">>,
                   <<".", "l", "o", "g">>, <<".", "t", "x", "t">>} :
          ~EndsWith(Lower(name), ext)

\* os.walk(music_folder) collects the file at <<folder, name>>: the files of
\* music/ itself and of every subfolder that is not excluded
WalkCollects(path) ==
    /\ path[1] = "music" \/ path[1] \notin ExcludedDirs
    /\ WalkKeeps(path[2])

InfoOf(title) ==
    [found |-> TRUE, has |-> {"title"}, categories |-> << >>, tags |-> << >>,
     title |-> title, description |-> None]

\* what the YouTube search may give for a query: nothing, or a first entry
InfoOutcomes ==
    {[found |-> FALSE, has |-> {}, categories |-> << >>, tags |-> << >>,
      title |-> None, description |-> None],
     InfoOf(Str(<<"P", "o", "p">>)),
     InfoOf(Str(<<"P", "o", "p", "?">>)),
     InfoOf(Str(<<"?">>)),
     InfoOf(Str(<<"x">>)),
     InfoOf(None)}

NewTask == [pc |-> "new", dest |-> << >>, result |-> ""]

InitBatch ==
    /\ \E chosen \in SUBSET ItemChoices :
          /\ Cardinality(chosen) \in 1..MaxItems
          /\ \A q \in chosen : WalkCollects(q)
          /\ items \in Perms(chosen)
          /\ mfs = [q \in chosen |-> q]
    /\ submitted = 0
    /\ task = [i \in DOMAIN items |-> NewTask]
    /\ collected = [i \in DOMAIN items |-> "none"]
    /\ bpc = "submit"
    /\ EnrIdle
    /\ ResIdle
    /\ FnIdle
    /\ DlIdle

BatFrame == UNCHANGED <<enrVars, resVars, fnVars, dlVars>>

\* determine_genre(youtube_info) for each search result of the model
GenreOfInfo == [info \in InfoOutcomes |-> DetermineGenre(info)]

\* process_music_file up to the os.path.exists test of the target:
\* kind "return" (a result is returned), "raise" (an exception leaves the
\* function) or "move" (shutil.move comes next); mkdirOk: os.makedirs succeeds
ProcessHead(filepath, info, mkdirOk, existing) ==
    LET parts == SplitExt(filepath[2])
        ret(r) == [kind |-> "return", result |-> r, dest |-> << >>]
        raise == [kind |-> "raise", result |-> "exception", dest |-> << >>]
    IN  IF IsSensibleFilename(parts[1]) THEN ret("sensible")
        ELSE IF ~(info.found /\ "title" \in info.has) THEN ret("nomatch")
        ELSE IF info.title.t # "str" THEN raise
        ELSE IF SanitizeFilename(info.title.s) = << >> THEN ret("empty")
        ELSE IF GenreOfInfo[info].exc THEN raise
        ELSE IF ~mkdirOk THEN raise
        ELSE LET dest == <<GenreOfInfo[info].genre,
                           SanitizeFilename(info.title.s) \o parts[2]>>
             IN  IF filepath = dest THEN ret("nochange")
                 ELSE IF dest \in existing THEN ret("exists")
                 ELSE [kind |-> "move", result |-> "", dest |-> dest]

\* shutil.move(filepath, new_filepath): a file at the target is replaced
MoveFile(files, src, dest) ==
    [q \in (DOMAIN files \ {src}) \cup {dest} |->
        IF q = dest THEN files[src] ELSE files[q]]

\* the body of the as_completed loop for a finished future: what is recorded,
\* and whether an exception leaves the loop
CollectNoExcept(result) ==
    [record |-> IF result = "exception" THEN "none" ELSE "result",
     abort |-> result = "exception"]

CollectFuture(result) ==
    [record |-> IF result = "exception" THEN "failure" ELSE "result",
     abort |-> FALSE]

\* executor.submit for the next listed file; after the last one the main
\* thread enters the as_completed loop
Submit ==
    /\ bpc = "submit"
    /\ submitted < Len(items)
    /\ submitted' = submitted + 1
    /\ task' = [task EXCEPT ![submitted + 1].pc = "queued"]
    /\ bpc' = IF submitted + 1 = Len(items) THEN "collect" ELSE "submit"
    /\ UNCHANGED <<mfs, items, collected>>
    /\ BatFrame

\* tasks that occupy a worker thread
Busy == {i \in DOMAIN task : task[i].pc = "checked"}

\* a free worker takes the oldest queued item and runs process_music_file up
\* to the test of the target path
TaskStart(i) ==
    /\ task[i].pc = "queued"
    /\ \A j \in DOMAIN task : task[j].pc = "queued" => i <= j
    /\ Cardinality(Busy) < CONCURRENCY_LEVEL
    /\ \E info \in InfoOutcomes, mkdirOk \in BOOLEAN :
         LET h == ProcessHead(items[i], info, mkdirOk, DOMAIN mfs) IN
         task' = [task EXCEPT ![i] =
                    IF h.kind = "move"
                    THEN [pc |-> "checked", dest |-> h.dest, result |-> ""]
                    ELSE [pc |-> "finished", dest |-> << >>, result |-> h.result]]
    /\ UNCHANGED <<mfs, items, submitted, collected, bpc>>
    /\ BatFrame

\* a task whose move takes place although a failure is returned
TaskMoveUnreported(i) ==
    /\ task[i].pc = "checked"
    /\ \/ /\ mfs' = MoveFile(mfs, items[i], task[i].dest)
          /\ task' = [task EXCEPT ![i].pc = "finished", ![i].result = "moved"]
       \/ /\ task' = [task EXCEPT ![i].pc = "finished", ![i].result = "failed"]
          /\ mfs' = MoveFile(mfs, items[i], task[i].dest)
    /\ UNCHANGED <<items, submitted, collected, bpc>>
    /\ BatFrame

\* the task's shutil.move inside try/except: the file is moved, or the move
\* fails and a failure result is returned
TaskMove(i) ==
    /\ task[i].pc = "checked"
    /\ \/ /\ mfs' = MoveFile(mfs, items[i], task[i].dest)
          /\ task' = [task EXCEPT ![i].pc = "finished", ![i].result = "moved"]
       \/ /\ task' = [task EXCEPT ![i].pc = "finished", ![i].result = "failed"]
          /\ UNCHANGED mfs
    /\ UNCHANGED <<items, submitted, collected, bpc>>
    /\ BatFrame

\* as_completed hands over a finished future; future.result() in try/except
Collect(i) ==
    /\ bpc = "collect"
    /\ task[i].pc = "finished"
    /\ collected[i] = "none"
    /\ collected' = [collected EXCEPT ![i] = CollectFuture(task[i].result).record]
    /\ bpc' = IF CollectFuture(task[i].result).abort THEN "crashed" ELSE bpc
    /\ UNCHANGED <<mfs, items, submitted, task>>
    /\ BatFrame

\* a main thread that logs the final line without waiting for the futures
ReportEarly ==
    /\ bpc = "collect"
    /\ bpc' = "reported"
    /\ UNCHANGED <<mfs, items, submitted, task, collected>>
    /\ BatFrame

\* every future was handed over: the executor shuts down and the final line
\* is logged
Report ==
    /\ bpc = "collect"
    /\ \A i \in DOMAIN collected : collected[i] # "none"
    /\ bpc' = "reported"
    /\ UNCHANGED <<mfs, items, submitted, task, collected>>
    /\ BatFrame

NextBatch ==
    \/ Submit
    \/ \E i \in DOMAIN items : TaskStart(i)
    \/ \E i \in DOMAIN items : TaskMove(i)
    \/ \E i \in DOMAIN items : Collect(i)
    \/ Report

SpecBatch == InitBatch /\ [][NextBatch]_vars

\* the main thread keeps running
MainThread == Submit \/ (\E i \in DOMAIN items : Collect(i)) \/ Report

\* the pool's workers keep running and every call they make returns
Workers == \E i \in DOMAIN items : TaskStart(i) \/ TaskMove(i)

\* the batch with threads that are scheduled and tasks that terminate
SpecBatchLive ==
    InitBatch /\ [][NextBatch]_vars /\ WF_vars(MainThread) /\ WF_vars(Workers)

\* ------------------------------------------------------------------------
\* One call of determine_genre and of map_genre with given arguments
\* ------------------------------------------------------------------------
\* texts of categories and tags
ClsCategories ==
    {<< >>, <<Str(<<"x">>)>>, <<Str(<<"r", "o", "c", "k", " ", "p", "o", "p">>)>>,
     <<Str(<<"x">>), Str(<<"E", "D", "M", " ", "m", "i", "x">>)>>}

ClsTags == {<< >>, <<Str(<<"S", "u", "f", "i">>)>>, <<Str(<<"o", "l", "d", " ", "b", "l", "u", "e", "s", " ", "r", "e", "c", "o", "r", "d">>)>>}

\* a title or description: None, or a text
ClsTitles == {None, Str(<< >>), Str(<<"x">>), Str(<<"C", "h", "i", "l", "l">>)}

ClsDescriptions == {None, Str(<<"x">>), Str(<<"p", "a", "r", "t", "y">>)}

\* info_dict: None or an empty dictionary, or a dictionary with some of the
\* four keys
ClsInfos ==
    {[found |-> FALSE, has |-> {}, categories |-> << >>, tags |-> << >>,
      title |-> None, description |-> None]}
    \cup [found : {TRUE}, has : SUBSET {"categories", "tags", "title", "description"},
          categories : ClsCategories, tags : ClsTags, title : ClsTitles,
          description : ClsDescriptions]

\* the genre tag handed to map_genre
ClsGenres ==
    {None, Str(<< >>), Str(<<"x">>), Str(<<"R", "o", "c", "k">>), Str(<<"i", "n", "d", "i", "e", " ", "p", "o", "p">>),
     Str(<<"H", "i", "p", " ", "H", "o", "p">>), Str(<<"o", "l", "d", " ", "b", "l", "u", "e", "s">>)}

InitClassify ==
    /\ cq \in [info : ClsInfos, genre : ClsGenres]
    /\ cres = << >>
    /\ nq = << >>
    /\ nres = << >>
    /\ eq = << >>
    /\ eres = << >>
    /\ EnrIdle
    /\ ResIdle
    /\ BatIdle
    /\ DlIdle

\* determine_genre(info) and map_genre(genre) are called and answer or raise
Classify ==
    /\ cres = << >>
    /\ cres' = [dg |-> DetermineGenre(cq.info), mg |-> MapGenre(cq.genre)]
    /\ UNCHANGED <<cq, nq, nres, eq, eres>>
    /\ UNCHANGED <<enrVars, resVars, batVars, dlVars>>

NextClassify == Classify

SpecClassify == InitClassify /\ [][NextClassify]_vars

\* ------------------------------------------------------------------------
\* One call of clean_filename, and a second call on its result
\* ------------------------------------------------------------------------
\* characters of the names: letters, a digit, a blank, a non-ASCII blank, a
\* non-ASCII letter, a dot
NormChars == {"a", "b", "1", " ", "nbsp", "e_acute", "."}

\* names: up to MaxLen characters, followed by .mp3 or by nothing
NormNames ==
    {s \o e : s \in UNION {[1..n -> NormChars] : n \in 0..MaxLen},
              e \in {<< >>, DotMp3}}

\* what the translation service does if clean_filename(filename) calls it
TranslateChoices(filename) ==
    IF TranslationReached(filename) THEN TranslateOutcomes ELSE {<<"raise">>}

InitNormalize ==
    /\ \E f \in NormNames : \E t \in TranslateChoices(f) :
          nq = [filename |-> f, tr |-> t]
    /\ nres = << >>
    /\ cq = << >>
    /\ cres = << >>
    /\ eq = << >>
    /\ eres = << >>
    /\ EnrIdle
    /\ ResIdle
    /\ BatIdle
    /\ DlIdle

\* cleaned = clean_filename(filename), then clean_filename(cleaned)
Normalize ==
    /\ nres = << >>
    /\ LET once == CleanFilename(nq.filename, nq.tr) IN
       \E t \in TranslateChoices(once) :
          nres' = [once |-> once, twice |-> CleanFilename(once, t)]
    /\ UNCHANGED <<nq, cq, cres, eq, eres>>
    /\ UNCHANGED <<enrVars, resVars, batVars, dlVars>>

NextNormalize == Normalize

SpecNormalize == InitNormalize /\ [][NextNormalize]_vars

\* ------------------------------------------------------------------------
\* One call of enrich_file with given tag store and resolver behaviours
\* ------------------------------------------------------------------------
\* what fetch_metadata may answer for b.mp3
EfAnswers ==
    {FetchMetadata(<<"b", ".", "m", "p", "3">>, yt, env, g) :
        yt \in ResYtOutcomes,
        env \in {[api_key |-> None, cse_id |-> None],
                 [api_key |-> Str(<<"a">>), cse_id |-> Str(<<"b">>)]},
        g \in ResGoogleOutcomes}

\* tags the file may hold when enrich_file is called
EfTags == {{}, {"title"}, {"artist", "genre"}, CommonTags}

InitEnrichFile ==
    /\ \E fm \in EfAnswers, tags \in EfTags, loadOk \in BOOLEAN, saveOk \in BOOLEAN :
          \E rejected \in SUBSET DOMAIN fm.meta :
             eq = [tags |-> tags, loadOk |-> loadOk, fm |-> fm,
                   rejected |-> rejected, saveOk |-> saveOk]
    /\ eres = << >>
    /\ cq = << >>
    /\ cres = << >>
    /\ nq = << >>
    /\ nres = << >>
    /\ EnrIdle
    /\ ResIdle
    /\ BatIdle
    /\ DlIdle

\* enrich_file(filepath) is called and returns
EnrichCall ==
    /\ eq # << >>
    /\ eres = << >>
    /\ eres' = EnrichFile(eq.tags, eq.loadOk, eq.fm, eq.rejected, eq.saveOk)
    /\ UNCHANGED <<eq, cq, cres, nq, nres>>
    /\ UNCHANGED <<enrVars, resVars, batVars, dlVars>>

NextEnrichFile == EnrichCall

SpecEnrichFile == InitEnrichFile /\ [][NextEnrichFile]_vars

\* ------------------------------------------------------------------------
\* music_downloader.py: download_music for one URL
\* ------------------------------------------------------------------------
\* titles of the videos; two videos of a playlist may have the same title
VideoNames == {<<"v", ".", "m", "p", "3">>, <<"w", ".", "m", "p", "3">>}

\* the URLs: a single video, or a playlist of up to MaxVideos videos
UrlChoices ==
    {[kind |-> "single", videos |-> <<v>>] : v \in VideoNames}
    \cup {[kind |-> "playlist", videos |-> vs] :
            vs \in UNION {[1..n -> VideoNames] : n \in 0..MaxVideos}}

\* what the audio file of a downloaded video may hold: its genre tag and the
\* keys of its tags
DlFileChoices ==
    {[genre |-> None, tags |-> {}],
     [genre |-> Str(<<"R", "o", "c", "k">>), tags |-> {"genre"}],
     [genre |-> Str(<<"i", "n", "d", "i", "e", " ", "p", "o", "p">>), tags |-> CommonTags]}

\* ydl.download([url]): it raises DownloadError/ExtractorError (the source is
\* unavailable), raises something else, returns without a file at
\* music/<title>.<ext>, or returns with the file there
DownloadOutcomes ==
    {[kind |-> k, file |-> [genre |-> None, tags |-> {}]] :
        k \in {"unavailable", "error", "ok"}}
    \cup {[kind |-> "placed", file |-> f] : f \in DlFileChoices}

\* extract_info(url, download=False): it raises DownloadError/ExtractorError,
\* raises something else, returns None, returns an info dictionary
ExtractOutcomes == {"unavailable", "error", "none", "info"}

\* which of the file operations of move_to_genre_folder and
\* enrich_if_missing_metadata succeed
IoOutcomes ==
    [load : BOOLEAN, mkdir : BOOLEAN, rename : BOOLEAN, ledger : BOOLEAN,
     save : BOOLEAN]

AllSucceed ==
    [load |-> TRUE, mkdir |-> TRUE, rename |-> TRUE, ledger |-> TRUE, save |-> TRUE]

\* what fetch_metadata may answer to the enricher the downloader constructs
DlResolverAnswers ==
    {FetchMetadata(<<"v", ".", "m", "p", "3">>, yt, env, g) :
        yt \in EnrYtOutcomes, env \in EnrEnvs, g \in EnrGoogleOutcomes}

NotFound == [found |-> FALSE, meta |-> << >>, calls |-> <<"youtube">>, raised |-> FALSE]

\* enrich_if_missing_metadata(filepath): every exception is caught and logged
EnrichIfMissingMetadata(files, filepath, io, fm, rejected) ==
    IF filepath \notin DOMAIN files \/ ~io.load THEN files
    ELSE IF CommonTags \subseteq files[filepath].tags THEN files
    ELSE IF ~io.ledger THEN files
    ELSE LET r == EnrichFile(files[filepath].tags, io.load, fm, rejected, io.save)
         IN  [files EXCEPT ![filepath] =
                [genre |-> IF "genre" \in r.written THEN fm.meta["genre"]
                           ELSE files[filepath].genre,
                 tags |-> r.tags]]

\* move_to_genre_folder(filepath): the file is moved to music/<bucket>/ and
\* enriched there; every exception is caught and the file stays. The record
\* holds the files afterwards, the path returned, and the paths given to
\* enrich_if_missing_metadata
MoveToGenreFolder(files, filepath, io, fm, rejected) ==
    LET stays == [files |-> files, path |-> filepath, enriched |-> {}] IN
    IF filepath \notin DOMAIN files \/ ~io.load THEN stays
    ELSE LET genre == IF "genre" \in files[filepath].tags THEN files[filepath].genre
                      ELSE Str(<<"O", "t", "h", "e", "r">>)
             mapped == MapGenre(genre)
             new_path == <<mapped.genre, filepath[2]>>
         IN  IF mapped.exc \/ ~io.mkdir THEN stays
             ELSE IF filepath = new_path
             THEN [files |-> EnrichIfMissingMetadata(files, filepath, io, fm, rejected),
                   path |-> filepath, enriched |-> {filepath}]
             ELSE IF ~io.rename THEN stays
             ELSE [files |-> EnrichIfMissingMetadata(
                                 MoveFile(files, filepath, new_path),
                                 new_path, io, fm, rejected),
                   path |-> new_path, enriched |-> {new_path}]

\* the download of one video and what follows it, up to the first exception:
\* download, extract_info, and for a file found at music/<title>.<ext>
\* move_to_genre_folder(filename) and enrich_if_missing_metadata(filename);
\* calls: the calls of enrich_if_missing_metadata that were made
DownloadVideo(files, v, dl, ex, io, fm, rejected) ==
    LET filename == <<"music", v>>
        got == IF dl.kind = "placed"
               THEN [q \in DOMAIN files \cup {filename} |->
                        IF q = filename THEN dl.file ELSE files[q]]
               ELSE files
        mv == MoveToGenreFolder(got, filename, io, fm, rejected)
    IN  IF dl.kind \in {"unavailable", "error"}
        THEN [files |-> files, outcome |-> dl.kind, calls |-> {}]
        ELSE IF ex \in {"unavailable", "error"}
        THEN [files |-> got, outcome |-> ex, calls |-> {}]
        ELSE IF ex = "none" THEN [files |-> got, outcome |-> "error", calls |-> {}]
        ELSE IF filename \notin DOMAIN got
        THEN [files |-> got, outcome |-> "done", calls |-> {}]
        ELSE [files |-> EnrichIfMissingMetadata(mv.files, filename, io, fm, rejected),
              outcome |-> "done",
              calls |-> {[path |-> q, at |-> mv.path, present |-> TRUE] :
                            q \in mv.enriched}
                        \cup {[path |-> filename, at |-> mv.path,
                                present |-> filename \in DOMAIN mv.files]}]

\* the inputs that matter for a step: what comes after a download that
\* raised, or after an extract_info that gave no dictionary, is not drawn
ExtractChoices(dl) ==
    IF dl.kind \in {"unavailable", "error"} THEN {"info"} ELSE ExtractOutcomes

IoChoices(dl, ex) ==
    IF dl.kind \in {"unavailable", "error"} \/ ex # "info" THEN {AllSucceed}
    ELSE IoOutcomes

AnswerChoices(dl, ex) ==
    IF dl.kind \in {"unavailable", "error"} \/ ex # "info" THEN {NotFound}
    ELSE DlResolverAnswers

InitDownload ==
    /\ durl \in UrlChoices
    /\ dpc = "start"
    /\ dleft = << >>
    /\ dlog = << >>
    /\ dret = ""
    /\ dfs = << >>
    /\ denr = {}
    /\ wk = << >>
    /\ EnrIdle
    /\ ResIdle
    /\ BatIdle
    /\ FnIdle

DlFrame == UNCHANGED <<enrVars, resVars, batVars, fnVars>>

\* except (DownloadError, ExtractorError) / except Exception at the end of
\* download_music: the result returned for an exception of that kind
OuterCatch(outcome) == IF outcome = "unavailable" THEN "skipped" ELSE "failed"

\* a playlist loop without its own except clauses: the exception goes to the
\* handlers at the end of download_music
PlaylistCatchNothing(outcome) == outcome \in {"unavailable", "error"}

\* the except clauses inside the playlist loop: whether the exception of one
\* video leaves the loop
PlaylistCatch(outcome) == FALSE

\* os.makedirs('music/thumbnails') and the first extract_info(url)
DlStart ==
    /\ dpc = "start"
    /\ \/ /\ dpc' = "raised"
          /\ dret' = "exception"
          /\ UNCHANGED <<dleft, dlog>>
       \/ \E ex \in ExtractOutcomes :
             /\ dlog' = Append(dlog, <<"url", ex>>)
             /\ IF ex = "info"
                THEN /\ dpc' = IF durl.kind = "playlist" THEN "loop" ELSE "single"
                     /\ dleft' = IF durl.kind = "playlist" THEN durl.videos ELSE << >>
                     /\ UNCHANGED dret
                ELSE /\ dpc' = "returned"
                     /\ dret' = OuterCatch(IF ex = "none" THEN "error" ELSE ex)
                     /\ UNCHANGED dleft
    /\ UNCHANGED <<durl, dfs, denr, wk>>
    /\ DlFrame

\* one pass of the playlist loop: the next video inside try/except
DlPlaylistVideo ==
    /\ dpc = "loop"
    /\ dleft # << >>
    /\ \E dl \in DownloadOutcomes : \E ex \in ExtractChoices(dl) :
       \E io \in IoChoices(dl, ex), fm \in AnswerChoices(dl, ex) :
       \E rejected \in SUBSET DOMAIN fm.meta :
          LET r == DownloadVideo(dfs, Head(dleft), dl, ex, io, fm, rejected) IN
          /\ dfs' = r.files
          /\ denr' = denr \cup r.calls
          /\ dlog' = Append(dlog, <<Head(dleft), r.outcome>>)
          /\ IF PlaylistCatch(r.outcome)
             THEN /\ dpc' = "returned"
                  /\ dret' = OuterCatch(r.outcome)
                  /\ UNCHANGED dleft
             ELSE /\ dleft' = Tail(dleft)
                  /\ UNCHANGED <<dpc, dret>>
    /\ UNCHANGED <<durl, wk>>
    /\ DlFrame

\* the loop is over: return "Finished processing playlist ..."
DlPlaylistEnd ==
    /\ dpc = "loop"
    /\ dleft = << >>
    /\ dpc' = "returned"
    /\ dret' = "finished"
    /\ UNCHANGED <<durl, dleft, dlog, dfs, denr, wk>>
    /\ DlFrame

\* the single video branch, inside the try block of download_music
DlSingle ==
    /\ dpc = "single"
    /\ \E dl \in DownloadOutcomes : \E ex \in ExtractChoices(dl) :
       \E io \in IoChoices(dl, ex), fm \in AnswerChoices(dl, ex) :
       \E rejected \in SUBSET DOMAIN fm.meta :
          LET r == DownloadVideo(dfs, durl.videos[1], dl, ex, io, fm, rejected) IN
          /\ dfs' = r.files
          /\ denr' = denr \cup r.calls
          /\ dlog' = Append(dlog, <<durl.videos[1], r.outcome>>)
          /\ dret' = IF r.outcome = "done" THEN "success" ELSE OuterCatch(r.outcome)
    /\ dpc' = "returned"
    /\ UNCHANGED <<durl, dleft, wk>>
    /\ DlFrame

NextDownload ==
    \/ DlStart
    \/ DlPlaylistVideo
    \/ DlPlaylistEnd
    \/ DlSingle

SpecDownload == InitDownload /\ [][NextDownload]_vars

\* ------------------------------------------------------------------------
\* music_downloader.py: the worker pool's calls of
\* enrich_if_missing_metadata, all sharing the ledger file
\* ------------------------------------------------------------------------
\* the files the workers' downloads have been moved to
PoolPaths == {<<"Other", v>> : v \in VideoNames}

\* the ledger file when the batch starts: absent, empty, one key, unreadable
PoolLedgers ==
    {[state |-> "absent", keys |-> << >>],
     [state |-> "ok", keys |-> << >>],
     [state |-> "ok", keys |-> <<<<"Other", <<"v", ".", "m", "p", "3">>>>>>],
     [state |-> "partial", keys |-> << >>]}

NewJob(path) == [pc |-> "inspect", path |-> path, mem |-> {}, ret |-> FALSE]

InitPool ==
    /\ \E n \in 1..MaxJobs : \E paths \in [1..n -> PoolPaths] :
          wk = [j \in 1..n |-> NewJob(paths[j])]
    /\ dfs \in [PoolPaths -> DlFileChoices]
    /\ ledgerFile \in PoolLedgers
    /\ fs = << >>
    /\ processed = {}
    /\ pc = "off"
    /\ todo = << >>
    /\ cur = NoCur
    /\ run = 0
    /\ events = {}
    /\ prev = [done |-> FALSE, marked |-> {}]
    /\ durable = {}
    /\ durl = << >>
    /\ dpc = "off"
    /\ dleft = << >>
    /\ dlog = << >>
    /\ dret = ""
    /\ denr = {}
    /\ ResIdle
    /\ BatIdle
    /\ FnIdle

PoolFrame ==
    UNCHANGED <<fs, processed, pc, todo, cur, run, events, prev, durable,
                durl, dpc, dleft, dlog, dret, denr, resVars, batVars, fnVars>>

\* a worker that does what process does after enrich_file: it adds the path
\* to its ledger set and rewrites the ledger file
PoolLedgerSaved(file, set, path, enriched) ==
    [state |-> "ok",
     keys |-> CHOOSE keys \in DumpLists(MarkDone(set, path, enriched)) : TRUE]

\* the ledger file after enricher.enrich_file(filepath) in
\* enrich_if_missing_metadata: neither processed.add nor save_processed
\* follows the call
PoolLedger(file, set, path, enriched) == file

\* enrich_if_missing_metadata, first part: MP3(filepath) and the test for
\* missing tags; an exception is caught and ends the call
PoolInspect(j) ==
    /\ wk[j].pc = "inspect"
    /\ \E loadOk \in BOOLEAN :
          wk' = [wk EXCEPT ![j].pc =
                    IF loadOk /\ ~(CommonTags \subseteq dfs[wk[j].path].tags)
                    THEN "construct" ELSE "done"]
    /\ UNCHANGED <<dfs, ledgerFile>>
    /\ PoolFrame

\* MP3MetaEnricher(os.path.dirname(filepath)): load_processed reads the
\* ledger file; an unreadable file raises, which ends the call
PoolConstruct(j) ==
    /\ wk[j].pc = "construct"
    /\ wk' = [wk EXCEPT ![j] =
                 IF LedgerReadable(ledgerFile)
                 THEN [@ EXCEPT !.pc = "enrich", !.mem = LoadProcessed(ledgerFile)]
                 ELSE [@ EXCEPT !.pc = "done"]]
    /\ UNCHANGED <<dfs, ledgerFile>>
    /\ PoolFrame

\* enricher.enrich_file(filepath), the last statement of the call
PoolEnrich(j) ==
    /\ wk[j].pc = "enrich"
    /\ \E loadOk \in BOOLEAN, saveOk \in BOOLEAN, fm \in DlResolverAnswers :
       \E rejected \in SUBSET DOMAIN fm.meta :
          LET path == wk[j].path
              r == EnrichFile(dfs[path].tags, loadOk, fm, rejected, saveOk)
          IN  /\ dfs' = [dfs EXCEPT ![path] =
                           [genre |-> IF "genre" \in r.written THEN fm.meta["genre"]
                                      ELSE dfs[path].genre,
                            tags |-> r.tags]]
              /\ wk' = [wk EXCEPT ![j].pc = "done", ![j].ret = r.ret]
              /\ ledgerFile' = PoolLedger(ledgerFile, wk[j].mem, path, r.ret)
    /\ PoolFrame

NextPool ==
    \/ \E j \in DOMAIN wk : PoolInspect(j)
    \/ \E j \in DOMAIN wk : PoolConstruct(j)
    \/ \E j \in DOMAIN wk : PoolEnrich(j)

SpecPool == InitPool /\ [][NextPool]_vars

\* ------------------------------------------------------------------------
\* Properties of MP3MetaEnricher.process (SpecEnricher)
\* ------------------------------------------------------------------------
\* number of entries of the ledger file equal to key
Entries(file, key) == Cardinality({i \in DOMAIN file.keys : file.keys[i] = key})

\* what touches an item beyond the two skips
Touching == {"visit", "rename", "resolver", "tagwrite", "mark"}

\* this run follows a run of process that returned normally
SecondRun == run >= 2 /\ prev.done /\ pc \in Running \cup {"done"}

C2_MarkedOnlyIfTagWritten ==
    \A e \in events :
        e[1] = "mark" => \E w \in events : w[1] = "tagwrite" /\ w[2] = e[2]

\* C3: a key contained in a completely rewritten ledger file is in the set
\* load_processed yields after the process is killed at any later point.
C3_KeySurvivesKill ==
    pc = "killed" =>
        \A k \in durable : LedgerReadable(ledgerFile) /\ k \in LoadProcessed(ledgerFile)

\* C4: no error of one file's processing leaves process: the walk is never cut
\* short by an exception.
C4_NoErrorLeavesProcess == pc # "raised"

\* the loop's next file is one it skips: its name does not end in .mp3, or
\* its path is in the ledger set
SkipDue ==
    /\ pc = "walk"
    /\ todo # << >>
    /\ \/ ~EndsWith(Lower(Head(todo)), DotMp3)
       \/ Head(todo) \in processed

\* C12: a skipped item has no side effects: the step of process that meets a
\* file that is not an .mp3 file, or whose path is in the ledger, goes on to
\* the next file without a rename, a resolver call, a tag write or a change of
\* the ledger set or the ledger file.
C12_SkipHasNoSideEffect ==
    [][(SkipDue /\ pc' # "killed") =>
          /\ pc' = "walk"
          /\ todo' = Tail(todo)
          /\ fs' = fs
          /\ processed' = processed
          /\ ledgerFile' = ledgerFile
          /\ \A e \in events' \ events : e[1] \notin Touching]_vars

\* one run has skipped a file found in the ledger and a file that is not an
\* .mp3 file
C12_Witness ==
    /\ pc = "walk"
    /\ \E e \in events : e[1] = "skip_ledger"
    /\ \E e \in events : e[1] = "skip_filter"
    /\ \A e \in events : e[1] \notin Touching

\* enrich_file is about to be called on a file that holds every common tag
FullTagsDue == pc = "enrich" /\ CommonTags \subseteq fs[cur.path].tags

\* C13: for a file that has every recognized tag key, enrich_file returns
\* False without calling fetch_metadata and without writing a tag, and process
\* does not add the file's path to the ledger.
C13_FullTagsLeftAlone ==
    [][(FullTagsDue /\ pc' # "killed") =>
          /\ pc' = "open"
          /\ fs' = fs
          /\ processed' = processed
          /\ \A e \in events' \ events :
                e[1] \notin {"resolver", "tagwrite", "mark"}]_vars

\* enrich_file has returned for a file with every common tag: no resolver
\* call was made for it and its path is not in the ledger
C13_Witness ==
    /\ pc = "open"
    /\ CommonTags \subseteq fs[cur.path].tags
    /\ cur.path \notin processed
    /\ \A e \in events : e[2] = cur.file => e[1] \notin {"resolver", "tagwrite", "mark"}

\* the names the walk of the current run has listed so far
Listed == {e[2] : e \in events}

\* the cleaned name of a listed file (the translation is never reached)
Cleaned(file) == CleanFilename(file, <<"raise">>)

C28_LedgeredFileKept ==
    /\ pc \in Running => \A k \in processed : k \in DOMAIN fs
    /\ pc = "remove" => cur.target \notin processed

\* ------------------------------------------------------------------------
\* Properties of fetch_metadata (SpecResolver)
\* ------------------------------------------------------------------------
Answered == rout # << >>

\* what the first provider's stage yields for the query
First == YoutubeStage(rq.filename, rq.yt)

\* C7: if the video search returns a non-empty candidate, fetch_metadata
\* returns exactly that candidate and the web search is never invoked.
C7_ShortCircuit ==
    (Answered /\ First.ret) =>
        /\ rout.found
        /\ rout.meta = First.meta
        /\ rout.calls = <<"youtube">>

\* the first provider has a candidate while the second one is ready to answer
C7_Witness ==
    /\ Answered
    /\ First.ret
    /\ CredentialsSet(rq.env)
    /\ rq.g.kind = "items"

\* C8 as stated: whenever the first provider has no candidate (no entry, an
\* empty candidate, an exception) the second provider is invoked next, and
\* None is returned only after both providers were invoked.
C8_SecondAlwaysTried ==
    (Answered /\ ~First.ret) =>
        /\ rout.calls = <<"youtube", "google">>
        /\ ~rout.found => rout.calls = <<"youtube", "google">>

\* C8 amended: whenever the first provider has no candidate, the second
\* provider is invoked next if both its credentials are set and is skipped
\* otherwise; None is returned only after the first provider was invoked
\* without a candidate and the second was invoked without a candidate or
\* skipped for missing credentials.
C8_SecondTriedIfCredentials ==
    /\ (Answered /\ ~First.ret) =>
          rout.calls = IF CredentialsSet(rq.env) THEN <<"youtube", "google">>
                       ELSE <<"youtube">>
    /\ (Answered /\ ~rout.found) =>
          /\ ~First.ret
          /\ rout.calls[1] = "youtube"
          /\ \/ ~CredentialsSet(rq.env)
             \/ /\ rout.calls = <<"youtube", "google">>
                /\ ~GoogleStage(rq.filename, rq.env, rq.g).ret

\* the first provider raised and the second one, asked next, had a candidate
C8_Witness ==
    /\ Answered
    /\ rq.yt.kind = "raise"
    /\ rout.calls = <<"youtube", "google">>
    /\ rout.found

\* C9: fetch_metadata never raises: it returns a candidate or None whatever
\* the providers do.
C9_NeverRaises ==
    Answered =>
        /\ ~rout.raised
        /\ rout.found <=> DOMAIN rout.meta # {}

\* both providers raised and fetch_metadata returned None
C9_Witness ==
    /\ Answered
    /\ rq.yt.kind = "raise"
    /\ CredentialsSet(rq.env)
    /\ rq.g.kind = "raise"
    /\ ~rout.found

\* C10: with either credential unset no request goes to the web search, and
\* the result is the one obtained when that provider returns nothing.
C10_SkippedWithoutCredentials ==
    (Answered /\ (rq.env.api_key = None \/ rq.env.cse_id = None)) =>
        /\ \A i \in DOMAIN rout.calls : rout.calls[i] # "google"
        /\ rout.found = First.ret
        /\ rout.meta = First.meta

\* one credential is set, the other is not, the first provider had nothing
\* and the web search would have had a candidate
C10_Witness ==
    /\ Answered
    /\ rq.env.api_key # None
    /\ Truthy(rq.env.api_key)
    /\ rq.env.cse_id = None
    /\ ~First.ret
    /\ rq.g.kind = "items"
    /\ ~rout.found

\* the fields the first provider's entry gives are all empty
YoutubeAllEmpty ==
    /\ rq.yt.kind = "entry"
    /\ \A k \in CommonTags : ~Truthy(YoutubeMeta(rq.yt.entry, rq.filename)[k])

\* the fields taken from the second provider's first item are all empty
GoogleAllEmpty ==
    /\ rq.g.kind = "items"
    /\ \A k \in {"artist", "title"} : ~Truthy(GoogleMeta(rq.g, rq.filename)[k])

\* C11: a candidate fetch_metadata returns has at least one field and no
\* field whose value is empty; a provider result whose fields are all empty
\* is not returned: the next provider is asked, or None is returned.
C11_CandidateHasNoEmptyField ==
    Answered =>
        /\ rout.found =>
              /\ DOMAIN rout.meta # {}
              /\ \A k \in DOMAIN rout.meta :
                    rout.meta[k] \notin {None, Str(<< >>), Num(0)}
        /\ (YoutubeAllEmpty /\ rout.found) => rout.calls = <<"youtube", "google">>
        /\ (YoutubeAllEmpty /\ (GoogleAllEmpty \/ ~CredentialsSet(rq.env))) =>
              ~rout.found

\* the first provider's result had only empty fields and was passed over; the
\* second provider's candidate was returned with its empty artist dropped
C11_Witness ==
    /\ Answered
    /\ YoutubeAllEmpty
    /\ rout.found
    /\ DOMAIN rout.meta = {"title"}

\* ------------------------------------------------------------------------
\* Properties of the classifiers (SpecClassify)
\* ------------------------------------------------------------------------
Classified == cres # << >>

\* the closed sets of buckets
DetermineBuckets == {GenreMapping[i][2] : i \in DOMAIN GenreMapping} \cup {"Other"}

MapBuckets == {"Pop", "Rock", "Electronic", "Classical", "Other"}

\* the signals of an info record in their order of priority
SignalList(info) ==
    IF ~info.found THEN << >>
    ELSE (IF "categories" \in info.has THEN info.categories ELSE << >>)
         \o (IF "tags" \in info.has THEN info.tags ELSE << >>)
         \o (IF "title" \in info.has THEN <<info.title>> ELSE << >>)
         \o (IF "description" \in info.has THEN <<info.description>> ELSE << >>)

\* the rows of a keyword table whose keyword a value's text contains
\* (a value that holds no text contains none)
Matches(table, v) ==
    IF v.t # "str" THEN {}
    ELSE {i \in DOMAIN table : Contains(Lower(v.s), table[i][1])}

Least(S) == CHOOSE i \in S : \A j \in S : i <= j

\* C16: classification is total: for every info record and every genre text
\* determine_genre and map_genre return one bucket of their closed set, and
\* "Other" when no signal contains a mapped keyword.
C16_ClassificationTotal ==
    Classified =>
        /\ ~cres.dg.exc
        /\ cres.dg.genre \in DetermineBuckets
        /\ (\A j \in DOMAIN SignalList(cq.info) :
                Matches(GenreMapping, SignalList(cq.info)[j]) = {})
              => cres.dg.genre = "Other"
        /\ ~cres.mg.exc
        /\ cres.mg.genre \in MapBuckets
        /\ Matches(GenreMap, cq.genre) = {} => cres.mg.genre = "Other"

\* every signal of the record given to determine_genre is a text
SignalsAreTexts == \A j \in DOMAIN SignalList(cq.info) : SignalList(cq.info)[j].t = "str"

Normalized == nres # << >>

\* C18: clean_filename is idempotent: cleaning a cleaned name changes nothing.
C18_CleanIdempotent == Normalized => nres.twice = nres.once

\* letters, ASCII or not
Letters == AsciiLetters \cup {"e_acute"}

\* C19: the result of clean_filename is a base name of letters and whitespace
\* only, without leading or trailing whitespace, followed by the extension of
\* the input (as os.path.splitext splits it) unchanged.
C19_LettersAndExtension ==
    Normalized =>
        LET ext == SplitExt(nq.filename)[2]
            r == nres.once
            base == SubSeq(r, 1, Len(r) - Len(ext))
        IN  /\ Len(r) >= Len(ext)
            /\ SubSeq(r, Len(r) - Len(ext) + 1, Len(r)) = ext
            /\ \A i \in DOMAIN base : base[i] \in Letters \cup WhiteSpace
            /\ base # << >> =>
                  base[1] \notin WhiteSpace /\ base[Len(base)] \notin WhiteSpace

\* a name with a digit, a letter, a trailing blank and an extension was cleaned
C19_Witness ==
    /\ Normalized
    /\ nq.filename = <<"1", "a", " ", ".", "m", "p", "3">>
    /\ nres.once = <<"a", ".", "m", "p", "3">>

\* the base name with every whitespace-delimited token that holds a
\* non-ASCII character dropped, and of the other tokens the letters
TokensDropped(filename) ==
    LET toks == SelectSeq(Split(SplitExt(filename)[1]),
                          LAMBDA w : \A i \in DOMAIN w : w[i] \notin NonAscii)
        lets == [j \in DOMAIN toks |->
                    SelectSeq(toks[j], LAMBDA c : c \in AsciiLetters)]
    IN  Join(SelectSeq(lets, LAMBDA w : w # << >>)) \o SplitExt(filename)[2]

\* C20: clean_filename drops every whitespace-delimited token of the base
\* name that holds a non-ASCII character; no character of such a token is in
\* the result.
C20_NonAsciiTokensDropped == Normalized => nres.once = TokensDropped(nq.filename)

FieldsTried ==
    /\ eres # << >>
    /\ eq.loadOk
    /\ ~(CommonTags \subseteq eq.tags)
    /\ eq.fm.found
    /\ ~eq.fm.raised

\* C23: in enrich_file a failure to set a field of the candidate does not
\* abort the item: every field of the candidate whose assignment did not fail
\* is assigned, the tag store is saved with them and True is returned; when
\* the save itself fails False is returned and the file keeps its tags. In
\* every case enrich_file returns a truth value, no exception leaves it.
C23_FieldFailureNotFatal ==
    /\ eres # << >> => eres.ret \in BOOLEAN
    /\ (FieldsTried /\ eq.rejected # {}) =>
          LET others == DOMAIN eq.fm.meta \ eq.rejected IN
          /\ eres.called
          /\ eq.saveOk => /\ eres.ret
                          /\ eres.written = others
                          /\ eres.tags = eq.tags \cup others
          /\ ~eq.saveOk => /\ ~eres.ret
                           /\ eres.tags = eq.tags

\* a candidate of three fields, the assignment of one of them failed: the
\* other two were written and saved
C23_Witness ==
    /\ FieldsTried
    /\ Cardinality(DOMAIN eq.fm.meta) = 3
    /\ Cardinality(eq.rejected) = 1
    /\ Cardinality(eres.written) = 2
    /\ eres.written \cap eq.tags = {}
    /\ eres.written \subseteq eres.tags
    /\ eres.ret

\* ------------------------------------------------------------------------
\* Properties of download_music (SpecDownload)
\* ------------------------------------------------------------------------
\* the URL given to download_music turned out to be unavailable: the first
\* extract_info raised DownloadError/ExtractorError, or the single video's
\* download or second extract_info did
UrlUnavailable ==
    \E i \in DOMAIN dlog :
        /\ dlog[i][2] = "unavailable"
        /\ dlog[i][1] = "url" \/ durl.kind = "single"

\* the videos the playlist loop has attempted, in order
Attempted == [i \in 1..(Len(dlog) - 1) |-> dlog[i + 1][1]]

\* C15: an unavailable source is a per-item skip: download_music returns the
\* skip result for an unavailable URL and does not raise, and in a playlist
\* every video is attempted whatever happened to the videos before it, the
\* loop ending with the result for a processed playlist.
C15_UnavailableIsSkipped ==
    /\ UrlUnavailable => dpc = "returned" /\ dret = "skipped"
    /\ (durl.kind = "playlist" /\ dlog # << >> /\ dlog[1] = <<"url", "info">>) =>
          /\ dpc \in {"loop", "returned"}
          /\ Attempted \o dleft = durl.videos
          /\ dpc = "returned" => dleft = << >> /\ dret = "finished"

\* a playlist was processed whose first video was unavailable and whose last
\* video was downloaded and moved to a genre folder
C15_Witness ==
    /\ durl.kind = "playlist"
    /\ dpc = "returned"
    /\ dret = "finished"
    /\ Len(dlog) >= 3
    /\ dlog[2][2] = "unavailable"
    /\ dlog[Len(dlog)][2] = "done"
    /\ \E f \in DOMAIN dfs : f[1] # "music"

\* C25: once move_to_genre_folder has relocated a downloaded file, every
\* later step for it uses the file's new path: every call of
\* enrich_if_missing_metadata is given the path at which the file is, and a
\* file is there.
C25_EnrichedAtNewPath ==
    \A c \in denr : c.present /\ c.path = c.at

\* ------------------------------------------------------------------------
\* Properties of the downloader's worker pool (SpecPool)
\* ------------------------------------------------------------------------
\* C27: no step of a worker of the downloader's pool changes the ledger file
\* or the ledger set its enricher loaded, whatever the other workers do in
\* between: the persisted ledger after the batch is the one before it.
C27_LedgerUntouchedByPool ==
    [][/\ ledgerFile' = ledgerFile
       /\ \A j \in DOMAIN wk :
             wk[j].pc = "enrich" => wk'[j].mem = wk[j].mem]_vars

\* two workers have enriched files next to a ledger file holding one key:
\* each loaded that key, and the path one of them enriched is not in the file
C27_Witness ==
    /\ Len(wk) >= 2
    /\ \A j \in DOMAIN wk : wk[j].pc = "done"
    /\ wk[1].ret /\ wk[2].ret
    /\ ledgerFile.state = "ok" /\ Len(ledgerFile.keys) = 1
    /\ wk[1].mem = Range(ledgerFile.keys)
    /\ \E j \in DOMAIN wk : wk[j].path \notin Range(ledgerFile.keys)

\* ------------------------------------------------------------------------
\* Properties of the renamer's batch (SpecBatch)
\* ------------------------------------------------------------------------
\* C5: an exception raised by one item's task stops neither the other tasks
\* nor the collecting loop: no exception leaves the loop, and when the batch
\* is reported every item's task has finished and has its outcome recorded,
\* a raising task as a failure and every other task as its result.
C5_BatchIsolation ==
    /\ bpc # "crashed"
    /\ bpc = "reported" =>
          \A i \in DOMAIN items :
              /\ task[i].pc = "finished"
              /\ collected[i] =
                    IF task[i].result = "exception" THEN "failure" ELSE "result"

\* a batch was reported in which one task raised and another moved its file
C5_Witness ==
    /\ bpc = "reported"
    /\ \E i, j \in DOMAIN items :
          /\ task[i].result = "exception"
          /\ collected[i] = "failure"
          /\ task[j].result = "moved"
          /\ collected[j] = "result"

\* C14: the batch is reported complete only after every submitted item's task
\* has finished (returned or raised) and its result was collected; and with
\* threads that run and tasks that terminate the report is eventually reached.
C14_ReportedAfterAllCollected ==
    /\ [](bpc = "reported" =>
            /\ submitted = Len(items)
            /\ \A i \in DOMAIN items :
                  task[i].pc = "finished" /\ collected[i] # "none")
    /\ <>(bpc = "reported")

\* the report was reached for a batch of several items, one of which was
\* moved and one of which returned without a move
C14_Witness ==
    /\ bpc = "reported"
    /\ Len(items) >= 2
    /\ \E i, j \in DOMAIN items :
          /\ task[i].result = "moved"
          /\ task[j].result \in {"sensible", "nomatch", "exists"}
    /\ \A i \in DOMAIN items : collected[i] # "none"

\* C24: when the batch is over, no file that a task of this run has moved
\* into a genre bucket folder would be collected by the walk of the next run.
C24_MovedFileNotCollected ==
    bpc = "reported" =>
        \A i \in DOMAIN items :
            (task[i].result = "moved" /\ task[i].dest \in DOMAIN mfs)
                => ~WalkCollects(task[i].dest)

\* C26: process_music_file changes the location of its file if and only if
\* its result is "Renamed and moved": a call that ends with that result has
\* taken the file from its original path to the target path, a call that
\* ends with any other result (an exception included) leaves every file
\* where and as it is, its own file at the original path, and nothing else
\* of the batch touches the music folder.
C26_MovedIffReported ==
    [][/\ \A i \in DOMAIN items :
             (task[i].pc # "finished" /\ task'[i].pc = "finished") =>
                 IF task'[i].result = "moved"
                 THEN /\ task[i].dest # items[i]
                      /\ items[i] \in DOMAIN mfs
                      /\ items[i] \notin DOMAIN mfs'
                      /\ task[i].dest \in DOMAIN mfs'
                      /\ mfs'[task[i].dest] = mfs[items[i]]
                      /\ \A q \in DOMAIN mfs \ {items[i], task[i].dest} :
                            q \in DOMAIN mfs' /\ mfs'[q] = mfs[q]
                 ELSE /\ mfs' = mfs
                      /\ items[i] \in DOMAIN mfs
                      /\ mfs[items[i]] = items[i]
       /\ (\A i \in DOMAIN items :
              task[i].pc = "finished" \/ task'[i].pc # "finished") => mfs' = mfs]_vars

\* one task has moved its file to its target and another has ended with a
\* failed move, its file where it was
C26_Witness ==
    \E i, j \in DOMAIN items :
        /\ task[i].result = "moved"
        /\ items[i] \notin DOMAIN mfs
        /\ task[i].dest \in DOMAIN mfs
        /\ mfs[task[i].dest] = items[i]
        /\ task[j].result = "failed"
        /\ items[j] \in DOMAIN mfs
        /\ mfs[items[j]] = items[j]
        /\ \E k \in DOMAIN items : task[k].result \in {"nomatch", "exists", "exception"}

\* C6: of two tasks with the same target path at most one places its file
\* there, and no file's content is lost.
C6_DestinationRaceSafe ==
    /\ \A i \in DOMAIN items : \E q \in DOMAIN mfs : mfs[q] = items[i]
    /\ \A i, j \in DOMAIN items :
          (i # j /\ task[i].result = "moved" /\ task[j].result = "moved")
              => task[i].dest # task[j].dest

====
